---- MODULE Spec2Model ----
(***************************************************************************)
(* Model of src/src/main/resources/pythonBootstrap.py (class               *)
(* PythonBootstrap): the bootstrap's main path (run and the methods it     *)
(* calls), the background communication loop, and the peer at the other    *)
(* end of the socket.                                                      *)
(*                                                                         *)
(* Two threads run: "main" (run) and "loop" (_communication_loop).  Every  *)
(* action is one step of one thread between two points where the other     *)
(* thread can run.  socket.sendall is not atomic across threads: it loops  *)
(* over send() and releases the interpreter lock around each call, so a    *)
(* frame reaches the connection in pieces; the model writes each frame as  *)
(* a "head" piece (the 4-byte prefix and the start of the body) and a      *)
(* "tail" piece (the rest of the body).  A write on a connection the peer  *)
(* has closed fails.                                                       *)
(***************************************************************************)
EXTENDS Integers, Sequences, FiniteSets, TLC

\* ------------------------------------------------------------------ bounds
\* Number of inbound frames the peer delivers in one run.
MaxInbound == 2
\* Number of send_to_java / get_from_java calls the workload makes.
MaxOps == 2

\* Number of close_communication calls a caller makes after run has ended.
MaxCloses == 2

\* ------------------------------------------------------------------ inputs
Threads == {"main", "loop"}

\* Exit codes a workload passes to sys.exit (besides sys.exit() with no code).
ExitCodes == {0, 42}

\* How the target script ends: it runs to its end, calls sys.exit(code) or
\* sys.exit() (none = TRUE), raises an Exception, cannot be read or compiled,
\* or raises a BaseException that is neither (KeyboardInterrupt).
Workloads ==
    {[kind |-> "complete", code |-> 0, none |-> FALSE],
     [kind |-> "exit", code |-> 0, none |-> TRUE],
     [kind |-> "fault", code |-> 0, none |-> FALSE],
     [kind |-> "loadfail", code |-> 0, none |-> FALSE],
     [kind |-> "interrupt", code |-> 0, none |-> FALSE]}
    \cup {[kind |-> "exit", code |-> c, none |-> FALSE] : c \in ExitCodes}

NoWorkload == [kind |-> "unset", code |-> 0, none |-> FALSE]

\* What --script names.
ScriptInputs == {"ok", "missing", "notfile", "unreadable"}
\* What --args holds.
ArgsInputs == {"ok", "badjson", "notmapping"}
\* --working-dir: absent or a directory chdir accepts, or one it refuses.
WorkdirInputs == {"ok", "fail"}

\* Inbound frames by what receive_message and _handle_received_message do with
\* them; not_object is JSON that is not an object.
InboundKinds ==
    {"heartbeat", "ping", "status", "unknown_cmd", "bad_cmd", "data", "other",
     "not_object"}

NoFrame == [mtype |-> "none", status |-> "", code |-> 0, limits |-> "none"]
\* snd[t] outside send_message: no frame, no caller to return to.
NoSend == [fid |-> 0, ret |-> "none", frame |-> NoFrame]
\* The outgoing stream before anything is written.
EmptyWire == [first |-> "none", open |-> "none"]
NoMsg == [kind |-> "none", id |-> 0]

VARIABLES
    pc,                    \* pc[t]: where thread t is
    is_communicating,      \* self.is_communicating
    communication_socket,  \* self.communication_socket: "None" or "sock"
    communication_thread,  \* self.communication_thread: "None", "started",
                           \* or "unstarted" (start() raised)
    message_queue,         \* self.message_queue: ids of queued data messages
    message_lock,          \* self.message_lock: "free", or "main" while
                           \* get_queued_messages holds it
    resource_limits,       \* self.resource_limits: "empty" ({}) or "set"
    exit_code,             \* run's local exit_code
    script_exit_code,      \* what load_and_execute_script returned
    snd,                   \* snd[t]: the frame thread t's send_message is
                           \* writing, its number, and where the call returns
    lmsg,                  \* the loop's local `message`: what the last
                           \* receive_message call returned
    messages,              \* get_queued_messages' local copy
    caps,                  \* script_globals has send_to_java / get_from_java
    script_globals,        \* the names in the globals the script runs with
    script, args, workdir, \* the inputs, set when run reads them
    connectResult,         \* how step 5 (establish_communication) went
    workload,              \* how the target script ended
    aborted,               \* the step whose exception run's handler caught
    escaped,               \* a BaseException is propagating out of run
    peerClosed,            \* the peer has closed the connection
    wire,                  \* the connection's outgoing stream, as the peer's
                           \* frame reader sees it (see WireAfter)
    sendLog,               \* the frames send_message built on the main
                           \* path, in order
    replyCount,            \* number of frames send_message built in the
                           \* loop thread
    refusedSends,          \* number of send_message calls that returned
                           \* False at the guard (the warning of line 284)
    nrecv,                 \* number of messages receive_message returned
    appendedLog,           \* ids appended to message_queue, in order
    drainedLog,            \* ids returned by get_queued_messages, in order
    delivered,             \* ids whose payload get_from_java returned
    bootstrapStatus,       \* number of BOOTSTRAP_STATUS lines printed
    executed,              \* exec(compiled_code) has run workload code
    closeCalls,            \* number of close_communication calls
    ops,                   \* workload calls of send_to_java / get_from_java
    memory_mb,             \* setup_resource_limits' argument
    current_mem_hard,      \* hard ceiling of RLIMIT_AS
    current_cpu_hard,      \* hard ceiling of RLIMIT_CPU
    current_fd_hard,       \* hard ceiling of RLIMIT_NOFILE
    raising,               \* the resource-module calls that raise
    soft_limit,            \* the soft limits setrlimit has applied
    pid,                   \* os.getpid()
    now_ms,                \* int(time.time() * 1000)
    sent_ids,              \* the messageId of each message built, by thread
    out_message,           \* send_message's `message`
    framed_message,        \* send_message's framed_message, as bytes
    cut,                   \* how many bytes of the frame the peer's end carries
    stream,                \* the bytes still to arrive before the peer closes
    data,                  \* _receive_exact's `data`
    message_length,        \* receive_message's message_length
    received,              \* what receive_message returned
    routed,                \* the arguments of _handle_received_message calls
    fpc                    \* where the framing round is

progVars == <<pc, is_communicating, communication_socket, communication_thread,
              message_queue, message_lock, resource_limits, exit_code,
              script_exit_code, snd, lmsg, messages, caps,
              script_globals>>
inputVars == <<script, args, workdir, connectResult, workload, aborted,
               escaped, peerClosed>>
histVars == <<wire, sendLog, replyCount, refusedSends, nrecv, appendedLog, drainedLog, delivered,
              bootstrapStatus, executed, closeCalls, ops>>
limitVars == <<memory_mb, current_mem_hard, current_cpu_hard, current_fd_hard,
               raising, soft_limit>>
idVars == <<pid, now_ms, sent_ids>>
frameVars == <<out_message, framed_message, cut, stream, data, message_length,
               received, routed, fpc>>
pureVars == <<limitVars, idVars, frameVars>>
vars == <<progVars, inputVars, histVars, pureVars>>

\* PythonBootstrap.__init__, and run's exit_code = 0: all but the channel.
ObjectInit ==
    /\ message_queue = <<>>
    /\ message_lock = "free"
    /\ resource_limits = "empty"
    /\ exit_code = 0
    /\ script_exit_code = 0
    /\ snd = [t \in Threads |-> NoSend]
    /\ lmsg = NoMsg
    /\ messages = <<>>
    /\ caps = FALSE
    /\ script_globals = {}
    /\ script = "unset" /\ args = "unset" /\ workdir = "unset"
    /\ workload = NoWorkload
    /\ aborted = "none"
    /\ escaped = FALSE
    /\ peerClosed = FALSE
    /\ wire = EmptyWire
    /\ sendLog = <<>>
    /\ replyCount = 0
    /\ refusedSends = 0
    /\ nrecv = 0
    /\ appendedLog = <<>>
    /\ drainedLog = <<>>
    /\ delivered = <<>>
    /\ bootstrapStatus = 0
    /\ executed = FALSE
    /\ closeCalls = 0
    /\ ops = 0

\* The object as __init__ leaves it (lines 33-35), run about to start.
RunInit ==
    /\ pc = [t \in Threads |-> IF t = "main" THEN "limits" ELSE "none"]
    /\ is_communicating = FALSE
    /\ communication_socket = "None"
    /\ communication_thread = "None"
    /\ connectResult = "unset"
    /\ ObjectInit

\* The object after establish_communication has connected (lines 248-261):
\* the workload runs in the main thread, the loop thread is in its while.
Established ==
    /\ pc = [t \in Threads |-> IF t = "main" THEN "exec" ELSE "top"]
    /\ is_communicating = TRUE
    /\ communication_socket = "sock"
    /\ communication_thread = "started"
    /\ connectResult = "ok"
    /\ ObjectInit

Resources == {"AS", "CPU", "NOFILE"}
\* The soft limits set by this process, by resource: none is set yet.
Inherited == [r \in {} |-> 0]

\* The parts of the program that a run does not look into are at rest.
LimitsIdle ==
    /\ memory_mb = 0
    /\ current_mem_hard = 0 /\ current_cpu_hard = 0 /\ current_fd_hard = 0
    /\ raising = {}
    /\ soft_limit = Inherited

IdsIdle ==
    /\ pid = 0
    /\ now_ms = 0
    /\ sent_ids = <<>>

\* A message of no type: the place of a message where there is none.
NoMessage == [messageType |-> "none", payload |-> <<>>]
\* receive_message has not returned.
Pending == [kind |-> "pending", message |-> NoMessage]
\* receive_message returned None.
ReturnedNone == [kind |-> "None", message |-> NoMessage]

FrameIdle ==
    /\ out_message = NoMessage
    /\ framed_message = <<>>
    /\ cut = 0
    /\ stream = <<>>
    /\ data = <<>>
    /\ message_length = 0
    /\ received = Pending
    /\ routed = <<>>
    /\ fpc = "idle"

Init == RunInit /\ LimitsIdle /\ IdsIdle /\ FrameIdle

Goto(t, where) == pc' = [pc EXCEPT ![t] = where]

chanVars == <<is_communicating, communication_socket, communication_thread>>
queueVars == <<message_queue, message_lock, messages>>
loopVars == <<lmsg, nrecv, appendedLog>>
runVars == <<resource_limits, exit_code, script_exit_code, caps,
             script_globals>>
startVars == <<script, args, workdir, connectResult>>
endVars == <<workload, aborted, escaped>>
drainVars == <<drainedLog, delivered>>
countVars == <<bootstrapStatus, executed, closeCalls, ops>>

\* ------------------------------------------------------------ send_message
\* SendGuard without the is_communicating test.
SendGuardSocketOnly == communication_socket # "None"

\* send_message's guard (line 283), negated: the call goes on to build a frame.
SendGuard == is_communicating /\ communication_socket # "None"

\* A call of send_message by thread t, which continues at `ret` when the call
\* returns.  Not communicating: return False at once.  Otherwise the message
\* is built and framed and sendall starts.
CallSend(t, mtype, status, code, ret) ==
    IF SendGuard
    THEN /\ LET frame == [mtype |-> mtype, status |-> status, code |-> code,
                          limits |-> IF status = "status_response"
                                     THEN resource_limits ELSE "none"]
            IN  IF t = "main"
                THEN /\ sendLog' = Append(sendLog, frame)
                     /\ snd' = [snd EXCEPT ![t] =
                                  [fid |-> Len(sendLog) + 1, ret |-> ret,
                                   frame |-> frame]]
                     /\ UNCHANGED <<replyCount, refusedSends>>
                ELSE /\ replyCount' = replyCount + 1
                     /\ snd' = [snd EXCEPT ![t] =
                                  [fid |-> replyCount + 1, ret |-> ret,
                                   frame |-> frame]]
                     /\ UNCHANGED <<sendLog, refusedSends>>
         /\ Goto(t, "send_head")
    ELSE /\ Goto(t, ret)
         /\ refusedSends' = refusedSends + 1
         /\ UNCHANGED <<snd, sendLog, replyCount>>

\* SendFailed without send_message's try/except in the loop thread: the error
\* of a reply goes through _handle_received_message to the handler of lines
\* 366-368, which breaks out of the loop.
SendFailedBreaksLoop(t) ==
    /\ Goto(t, IF t = "loop" THEN "done" ELSE snd[t].ret)
    /\ snd' = [snd EXCEPT ![t] = NoSend]
    /\ UNCHANGED pureVars
    /\ UNCHANGED <<chanVars, queueVars, loopVars, runVars, startVars, endVars,
                   drainVars, countVars, peerClosed, wire, sendLog, replyCount,
                   refusedSends>>

\* SendFailed without send_message's try/except: on the main path the error
\* goes up to run's handler (close_communication keeps its own try/except).
SendFailedRaises(t) ==
    /\ snd' = [snd EXCEPT ![t] = NoSend]
    /\ IF t = "main" /\ snd[t].ret # "close_flip"
       THEN /\ exit_code' = 1
            /\ aborted' = "send"
            /\ Goto(t, "finally")
       ELSE /\ Goto(t, snd[t].ret)
            /\ UNCHANGED <<exit_code, aborted>>
    /\ UNCHANGED pureVars
    /\ UNCHANGED <<chanVars, queueVars, loopVars, resource_limits,
                   script_exit_code, caps, script_globals, startVars, workload, escaped,
                   drainVars, countVars, peerClosed, wire, sendLog, replyCount, refusedSends>>

\* sendall raised (OSError on a connection the peer has closed; OSError or
\* AttributeError on a socket close_communication has closed and set to
\* None): send_message logs it and returns False to its caller.
SendFailed(t) ==
    /\ Goto(t, snd[t].ret)
    /\ snd' = [snd EXCEPT ![t] = NoSend]
    /\ UNCHANGED pureVars
    /\ UNCHANGED <<chanVars, queueVars, loopVars, runVars, startVars, endVars,
                   drainVars, countVars, peerClosed, wire, sendLog, replyCount, refusedSends>>

\* The stream w after thread t has written a piece of a frame of type mtype.
\* first is the type of the first frame with a piece on the stream.  open is
\* the thread whose frame has its head at the end of the stream and its tail
\* still to come, "none" at a frame boundary.
WireAfter(w, t, mtype, part) ==
    [first |-> IF w.first = "none" THEN mtype ELSE w.first,
     open |-> IF part = "head" THEN t ELSE "none"]

\* sendall hands the next piece of the frame to the connection.
SendPiece(t) ==
    /\ communication_socket # "None"
    /\ ~peerClosed
    /\ wire' = WireAfter(wire, t, snd[t].frame.mtype,
                          IF pc[t] = "send_head" THEN "head" ELSE "tail")
    /\ IF pc[t] = "send_head"
       THEN Goto(t, "send_tail") /\ UNCHANGED snd
       ELSE Goto(t, snd[t].ret) /\ snd' = [snd EXCEPT ![t] = NoSend]
    /\ UNCHANGED pureVars
    /\ UNCHANGED <<chanVars, queueVars, loopVars, runVars, startVars, endVars,
                   drainVars, countVars, peerClosed, sendLog, replyCount, refusedSends>>

\* One step of socket.sendall(framed_message) in thread t.
SendWrite(t) ==
    /\ pc[t] \in {"send_head", "send_tail"}
    /\ \/ SendPiece(t)
       \/ /\ communication_socket = "None" \/ peerClosed
          /\ SendFailed(t)

\* ------------------------------------------------------------ run, steps 1-6
\* Abort with the cleanup left out of the finally clause.
AbortWithoutCleanup(step) ==
    /\ exit_code' = 1
    /\ aborted' = step
    /\ Goto("main", "returned")

\* run's `except Exception` handler: exit_code = 1, then the finally clause.
Abort(step) ==
    /\ exit_code' = 1
    /\ aborted' = step
    /\ Goto("main", "finally")

\* setup_resource_limits: the limits are recorded, or an exception of
\* getrlimit / setrlimit is absorbed and self.resource_limits stays {}.
SetupResourceLimits ==
    /\ pc["main"] = "limits"
    /\ \E r \in {"set", "empty"} : resource_limits' = r
    /\ Goto("main", "validate")
    /\ UNCHANGED pureVars
    /\ UNCHANGED <<chanVars, queueVars, loopVars, exit_code, script_exit_code,
                   caps, script_globals, startVars, endVars, drainVars, countVars, snd,
                   peerClosed, wire, sendLog, replyCount, refusedSends>>

\* ValidateRaises without the is_file check of line 198.
ValidateRaisesNoFileCheck(s) == s = "missing" \/ s = "unreadable"

\* validate_target_script raises unless the path exists, is a file and is
\* readable.
ValidateRaises(s) == s = "missing" \/ s = "notfile" \/ s = "unreadable"

ValidateTargetScript ==
    /\ pc["main"] = "validate"
    /\ \E s \in ScriptInputs :
         /\ script' = s
         /\ IF ValidateRaises(s)
            THEN Abort("validate")
            ELSE Goto("main", "args") /\ UNCHANGED <<exit_code, aborted>>
    /\ UNCHANGED pureVars
    /\ UNCHANGED <<chanVars, queueVars, loopVars, resource_limits,
                   script_exit_code, caps, script_globals, args, workdir, connectResult,
                   workload, escaped, drainVars, countVars, snd, peerClosed,
                   wire, sendLog, replyCount, refusedSends>>

\* ArgumentsRaise without the isinstance check of line 210.
ArgumentsRaiseJsonOnly(a) == a = "badjson"

\* load_script_arguments raises ValueError on text that is not JSON and on
\* JSON that is not an object.
ArgumentsRaise(a) == a = "badjson" \/ a = "notmapping"

LoadScriptArguments ==
    /\ pc["main"] = "args"
    /\ \E a \in ArgsInputs :
         /\ args' = a
         /\ IF ArgumentsRaise(a)
            THEN Abort("args")
            ELSE Goto("main", "workdir") /\ UNCHANGED <<exit_code, aborted>>
    /\ UNCHANGED pureVars
    /\ UNCHANGED <<chanVars, queueVars, loopVars, resource_limits,
                   script_exit_code, caps, script_globals, script, workdir, connectResult,
                   workload, escaped, drainVars, countVars, snd, peerClosed,
                   wire, sendLog, replyCount, refusedSends>>

\* setup_working_directory raises RuntimeError when os.chdir fails; without
\* --working-dir it does nothing.
WorkingDirectoryRaises(w) == w = "fail"

SetupWorkingDirectory ==
    /\ pc["main"] = "workdir"
    /\ \E w \in WorkdirInputs :
         /\ workdir' = w
         /\ IF WorkingDirectoryRaises(w)
            THEN Abort("workdir")
            ELSE Goto("main", "connect") /\ UNCHANGED <<exit_code, aborted>>
    /\ UNCHANGED pureVars
    /\ UNCHANGED <<chanVars, queueVars, loopVars, resource_limits,
                   script_exit_code, caps, script_globals, script, args, connectResult,
                   workload, escaped, drainVars, countVars, snd, peerClosed,
                   wire, sendLog, replyCount, refusedSends>>

\* EstablishCommunication without its try/except: a failed connect or thread
\* start goes up to run's handler.
EstablishCommunicationFatal ==
    /\ pc["main"] = "connect"
    /\ \E r \in {"noport", "connfail", "threadfail", "ok"} :
         /\ connectResult' = r
         /\ IF r = "ok"
            THEN /\ is_communicating' = TRUE
                 /\ communication_socket' = "sock"
                 /\ communication_thread' = "started"
                 /\ pc' = [pc EXCEPT !["main"] = "est_send", !["loop"] = "top"]
                 /\ UNCHANGED <<exit_code, aborted>>
            ELSE /\ IF r = "noport"
                    THEN Goto("main", "report") /\ UNCHANGED <<exit_code, aborted>>
                    ELSE Abort("connect")
                 /\ communication_thread' =
                      IF r = "threadfail" THEN "unstarted" ELSE "None"
                 /\ UNCHANGED <<is_communicating, communication_socket>>
    /\ UNCHANGED pureVars
    /\ UNCHANGED <<queueVars, loopVars, resource_limits, script_exit_code,
                   caps, script_globals, script, args, workdir, workload, escaped, drainVars,
                   countVars, snd, peerClosed, wire, sendLog, replyCount,
                   refusedSends>>

\* EstablishCommunication with a handler that does not reset
\* is_communicating when the thread cannot be started.
EstablishCommunicationStaysConnected ==
    /\ pc["main"] = "connect"
    /\ \E r \in {"noport", "connfail", "threadfail", "ok"} :
         /\ connectResult' = r
         /\ IF r = "ok"
            THEN /\ is_communicating' = TRUE
                 /\ communication_socket' = "sock"
                 /\ communication_thread' = "started"
                 /\ pc' = [pc EXCEPT !["main"] = "est_send", !["loop"] = "top"]
            ELSE /\ Goto("main", "report")
                 /\ communication_thread' =
                      IF r = "threadfail" THEN "unstarted" ELSE "None"
                 /\ is_communicating' = (r = "threadfail")
                 /\ UNCHANGED communication_socket
    /\ UNCHANGED pureVars
    /\ UNCHANGED <<queueVars, loopVars, runVars, script, args, workdir,
                   endVars, drainVars, countVars, snd, peerClosed, wire,
                   sendLog, replyCount, refusedSends>>

\* Step 5.  Without a port run skips the call.  establish_communication
\* either connects, sets is_communicating and starts the loop thread, or an
\* exception (connect refused, thread cannot start) takes its handler, which
\* leaves is_communicating False and the socket closed and None.
EstablishCommunication ==
    /\ pc["main"] = "connect"
    /\ \E r \in {"noport", "connfail", "threadfail", "ok"} :
         /\ connectResult' = r
         /\ IF r = "ok"
            THEN /\ is_communicating' = TRUE
                 /\ communication_socket' = "sock"
                 /\ communication_thread' = "started"
                 /\ pc' = [pc EXCEPT !["main"] = "est_send", !["loop"] = "top"]
            ELSE /\ Goto("main", "report")
                 /\ communication_thread' =
                      IF r = "threadfail" THEN "unstarted" ELSE "None"
                 /\ UNCHANGED <<is_communicating, communication_socket>>
    /\ UNCHANGED pureVars
    /\ UNCHANGED <<queueVars, loopVars, runVars, script, args, workdir,
                   endVars, drainVars, countVars, snd, peerClosed, wire,
                   sendLog, replyCount, refusedSends>>

\* establish_communication's send_message("connection", ...), line 266.
SendConnection ==
    /\ pc["main"] = "est_send"
    /\ CallSend("main", "connection", "connected", 0, "report")
    /\ UNCHANGED pureVars
    /\ UNCHANGED <<chanVars, queueVars, loopVars, runVars, startVars, endVars,
                   drainVars, countVars, peerClosed, wire>>

\* ReportStartupStatus with the line printed before the status is complete:
\* a failure of os.getcwd then follows the print.
ReportStartupStatusPrintsFirst ==
    /\ pc["main"] = "report"
    /\ bootstrapStatus' = bootstrapStatus + 1
    /\ \/ /\ Goto("main", "load")
          /\ UNCHANGED <<exit_code, aborted>>
       \/ Abort("report")
    /\ UNCHANGED pureVars
    /\ UNCHANGED <<chanVars, queueVars, loopVars, resource_limits,
                   script_exit_code, caps, script_globals, startVars, workload, escaped,
                   drainVars, executed, closeCalls, ops, snd, peerClosed, wire,
                   sendLog, replyCount, refusedSends>>

\* report_startup_status prints the BOOTSTRAP_STATUS line; os.getcwd or the
\* print can raise (working directory removed, stdout closed), which run's
\* handler catches.
ReportStartupStatus ==
    /\ pc["main"] = "report"
    /\ \/ /\ bootstrapStatus' = bootstrapStatus + 1
          /\ Goto("main", "load")
          /\ UNCHANGED <<exit_code, aborted>>
       \/ /\ Abort("report")
          /\ UNCHANGED bootstrapStatus
    /\ UNCHANGED pureVars
    /\ UNCHANGED <<chanVars, queueVars, loopVars, resource_limits,
                   script_exit_code, caps, script_globals, startVars, workload, escaped,
                   drainVars, executed, closeCalls, ops, snd, peerClosed, wire,
                   sendLog, replyCount, refusedSends>>

\* ------------------------------------------------- load_and_execute_script
\* `if self.is_communicating: self.send_message("script_status", ...)`
StatusSend(status, code, ret) ==
    IF is_communicating
    THEN CallSend("main", "script_status", status, code, ret)
    ELSE Goto("main", ret) /\ UNCHANGED <<snd, sendLog, replyCount, refusedSends>>

\* Lines 455-463: the loading status.
LoadBegin ==
    /\ pc["main"] = "load"
    /\ StatusSend("loading", 0, "prepare")
    /\ UNCHANGED pureVars
    /\ UNCHANGED <<chanVars, queueVars, loopVars, runVars, startVars, endVars,
                   drainVars, countVars, peerClosed, wire>>

\* PrepareScriptEnvironment with the helpers added unconditionally.
PrepareScriptEnvironmentAlwaysHelpers(communicating) ==
    {"__builtins__", "__name__", "__file__", "__doc__", "__package__",
     "SCRIPT_ARGS", "get_logger", "send_to_java", "get_from_java"}

\* _prepare_script_environment: the names of the globals it returns.
PrepareScriptEnvironment(communicating) ==
    {"__builtins__", "__name__", "__file__", "__doc__", "__package__",
     "SCRIPT_ARGS", "get_logger"}
    \cup (IF communicating THEN {"send_to_java", "get_from_java"} ELSE {})

\* LoadCompile without the raise of a failed read or compile: the executing
\* status is sent and the workload starts all the same.
LoadCompileIgnoresFailure ==
    /\ pc["main"] = "prepare"
    /\ script_globals' = PrepareScriptEnvironment(is_communicating)
    /\ caps' = ({"send_to_java", "get_from_java"} \subseteq script_globals')
    /\ \/ /\ StatusSend("executing", 0, "exec")
          /\ UNCHANGED <<workload, script_exit_code>>
       \/ /\ workload' = [kind |-> "loadfail", code |-> 0, none |-> FALSE]
          /\ StatusSend("executing", 0, "exec")
          /\ UNCHANGED script_exit_code
    /\ UNCHANGED pureVars
    /\ UNCHANGED <<chanVars, queueVars, loopVars, resource_limits, exit_code,
                   startVars, aborted, escaped, drainVars, countVars,
                   peerClosed, wire>>

\* Lines 465-479 and the handler of lines 510-523: the globals are prepared
\* (with the helpers only when communicating), the script is read and
\* compiled, and the executing status is sent.  Reading or compiling can
\* raise (file gone since validation, bad encoding, SyntaxError), which goes
\* to the `except Exception` handler: failed status, return 1.
LoadCompile ==
    /\ pc["main"] = "prepare"
    /\ script_globals' = PrepareScriptEnvironment(is_communicating)
    /\ caps' = ({"send_to_java", "get_from_java"} \subseteq script_globals')
    /\ \/ /\ StatusSend("executing", 0, "exec")
          /\ UNCHANGED <<workload, script_exit_code>>
       \/ /\ workload' = [kind |-> "loadfail", code |-> 0, none |-> FALSE]
          /\ StatusSend("failed", 0, "ret_load")
          /\ script_exit_code' = 1
    /\ UNCHANGED pureVars
    /\ UNCHANGED <<chanVars, queueVars, loopVars, resource_limits, exit_code,
                   startVars, aborted, escaped, drainVars, countVars,
                   peerClosed, wire>>

\* ScriptExitCode with the return 1 of line 523 missing from the handler.
ScriptExitCodeFaultIsZero(w) ==
    CASE w.kind = "exit" -> IF w.none THEN 0 ELSE w.code
      [] OTHER -> 0

\* What load_and_execute_script returns for a workload that ended as w:
\* 0 (line 494), e.code or 0 for None (lines 498, 508), 1 (line 523).
ScriptExitCode(w) ==
    CASE w.kind = "complete" -> 0
      [] w.kind = "exit" -> IF w.none THEN 0 ELSE w.code
      [] OTHER -> 1

\* TerminalStatus with a normal end reported like sys.exit(0).
TerminalStatusAlwaysExited(w) ==
    CASE w.kind \in {"complete", "exit"} -> "exited"
      [] OTHER -> "failed"

\* The status each handler reports.
TerminalStatus(w) ==
    CASE w.kind = "complete" -> "completed"
      [] w.kind = "exit" -> "exited"
      [] OTHER -> "failed"

\* The workload ends (lines 484-523).  A BaseException other than SystemExit
\* matches neither handler here nor run's `except Exception`: it leaves
\* through run's finally clause.
WorkloadFinish ==
    /\ pc["main"] = "exec"
    /\ \E w \in Workloads :
         /\ w.kind # "loadfail"
         /\ workload' = w
         /\ IF w.kind = "interrupt"
            THEN /\ escaped' = TRUE
                 /\ Goto("main", "finally")
                 /\ UNCHANGED <<script_exit_code, snd, sendLog, replyCount, refusedSends>>
            ELSE /\ script_exit_code' = ScriptExitCode(w)
                 /\ StatusSend(TerminalStatus(w),
                               IF w.kind = "fault" THEN 0 ELSE ScriptExitCode(w),
                               "ret_load")
                 /\ UNCHANGED escaped
    /\ executed' = TRUE
    /\ UNCHANGED pureVars
    /\ UNCHANGED <<chanVars, queueVars, loopVars, resource_limits, exit_code,
                   caps, script_globals, startVars, aborted, drainVars, bootstrapStatus,
                   closeCalls, ops, peerClosed, wire>>

\* send_to_java, called by the workload (lines 563-574).
WorkloadEmit ==
    /\ pc["main"] = "exec"
    /\ caps
    /\ ops < MaxOps
    /\ ops' = ops + 1
    /\ IF is_communicating
       THEN CallSend("main", "script_data", "", 0, "exec")
       ELSE Goto("main", "exec") /\ UNCHANGED <<snd, sendLog, replyCount, refusedSends>>
    /\ executed' = TRUE
    /\ UNCHANGED pureVars
    /\ UNCHANGED <<chanVars, queueVars, loopVars, runVars, startVars, endVars,
                   drainVars, bootstrapStatus, closeCalls, peerClosed, wire>>

\* --------------------------------------------------- run, after the script
\* RunExitCode with any failure of the script reported as 1.
RunExitCodeFlag(sc, ec) == IF sc # 0 THEN 1 ELSE ec

\* Lines 639-641: exit_code becomes script_exit_code unless that is 0.
RunExitCode(sc, ec) == IF sc # 0 THEN sc ELSE ec

\* Lines 636-643: load_and_execute_script has returned.
RunAfterScript ==
    /\ pc["main"] = "ret_load"
    /\ exit_code' = RunExitCode(script_exit_code, exit_code)
    /\ Goto("main", "finally")
    /\ UNCHANGED pureVars
    /\ UNCHANGED <<chanVars, queueVars, loopVars, resource_limits,
                   script_exit_code, caps, script_globals, startVars, endVars, drainVars,
                   countVars, snd, peerClosed, wire, sendLog, replyCount, refusedSends>>

\* main, lines 665-669: sys.exit(run()); the process's exit status is the low
\* eight bits of the code.
ProcessExitCode(rc) == rc % 256

\* Where run ends: it returns exit_code, or the BaseException goes on up.
EndPc == IF escaped THEN "raised" ELSE "returned"

\* CloseCommunication without the `if self.is_communicating` of line 427.
CloseCommunicationUnguarded ==
    /\ pc["main"] = "finally"
    /\ closeCalls' = closeCalls + 1
    /\ CallSend("main", "disconnect", "disconnecting", 0, "close_flip")
    /\ UNCHANGED pureVars
    /\ UNCHANGED <<chanVars, queueVars, loopVars, runVars, startVars, endVars,
                   drainVars, bootstrapStatus, executed, ops, peerClosed, wire>>

\* close_communication, called from run's finally clause (line 657): nothing
\* unless is_communicating; else the disconnect message first (lines 427-434).
CloseCommunication ==
    /\ pc["main"] = "finally"
    /\ closeCalls' = closeCalls + 1
    /\ IF is_communicating
       THEN CallSend("main", "disconnect", "disconnecting", 0, "close_flip")
       ELSE Goto("main", EndPc) /\ UNCHANGED <<snd, sendLog, replyCount, refusedSends>>
    /\ UNCHANGED pureVars
    /\ UNCHANGED <<chanVars, queueVars, loopVars, runVars, startVars, endVars,
                   drainVars, bootstrapStatus, executed, ops, peerClosed, wire>>

\* CloseFlip without the assignment of line 436.
CloseFlipMissing ==
    /\ pc["main"] = "close_flip"
    /\ Goto("main", "close_sock")
    /\ UNCHANGED pureVars
    /\ UNCHANGED <<is_communicating, communication_socket, communication_thread,
                   queueVars, loopVars, runVars, startVars, endVars, drainVars,
                   countVars, snd, peerClosed, wire, sendLog, replyCount,
                   refusedSends>>

\* Line 436.
CloseFlip ==
    /\ pc["main"] = "close_flip"
    /\ is_communicating' = FALSE
    /\ Goto("main", "close_sock")
    /\ UNCHANGED pureVars
    /\ UNCHANGED <<communication_socket, communication_thread, queueVars,
                   loopVars, runVars, startVars, endVars, drainVars, countVars,
                   snd, peerClosed, wire, sendLog, replyCount, refusedSends>>

\* Lines 439-444: the socket is closed and forgotten.
CloseSocket ==
    /\ pc["main"] = "close_sock"
    /\ communication_socket' = "None"
    /\ Goto("main", "close_join")
    /\ UNCHANGED pureVars
    /\ UNCHANGED <<is_communicating, communication_thread, queueVars,
                   loopVars, runVars, startVars, endVars, drainVars, countVars,
                   snd, peerClosed, wire, sendLog, replyCount, refusedSends>>

\* CloseJoin with join() called without a timeout.
CloseJoinWaitsForLoop ==
    /\ pc["main"] = "close_join"
    /\ pc["loop"] \in {"none", "done"}
    /\ Goto("main", EndPc)
    /\ UNCHANGED pureVars
    /\ UNCHANGED <<chanVars, queueVars, loopVars, runVars, startVars, endVars,
                   drainVars, countVars, snd, peerClosed, wire, sendLog,
                   replyCount, refusedSends>>

\* Lines 447-450: join(timeout=2.0) returns when the loop thread has ended
\* or when the two seconds are over, whichever comes first.
CloseJoin ==
    /\ pc["main"] = "close_join"
    /\ Goto("main", EndPc)
    /\ UNCHANGED pureVars
    /\ UNCHANGED <<chanVars, queueVars, loopVars, runVars, startVars, endVars,
                   drainVars, countVars, snd, peerClosed, wire, sendLog, replyCount, refusedSends>>

\* ------------------------------------------ get_from_java and the Inbox
\* LockFree for code that does not take the lock.
LockIgnored == TRUE

\* threading.Lock: acquire blocks while another thread holds it.
LockFree == message_lock = "free"

\* get_from_java, called by the workload (lines 579-584).
WorkloadAwait ==
    /\ pc["main"] = "exec"
    /\ caps
    /\ ops < MaxOps
    /\ ops' = ops + 1
    /\ Goto("main", IF is_communicating THEN "gfj_loop" ELSE "exec")
    /\ executed' = TRUE
    /\ UNCHANGED pureVars
    /\ UNCHANGED <<chanVars, queueVars, loopVars, runVars, startVars, endVars,
                   drainVars, bootstrapStatus, closeCalls, snd,
                   peerClosed, wire, sendLog, replyCount, refusedSends>>

\* GetFromJavaPoll with `while True` in place of the timeout test.
GetFromJavaPollForever ==
    /\ pc["main"] = "gfj_loop"
    /\ LockFree
    /\ message_lock' = "main"
    /\ Goto("main", "gq_copy")
    /\ UNCHANGED pureVars
    /\ UNCHANGED <<chanVars, message_queue, messages, loopVars, runVars,
                   startVars, endVars, drainVars, countVars, snd, peerClosed,
                   wire, sendLog, replyCount, refusedSends>>

\* The while of line 587: the timeout is over and get_from_java returns None,
\* or get_queued_messages is called and takes the lock (line 420).
GetFromJavaPoll ==
    /\ pc["main"] = "gfj_loop"
    /\ \/ /\ Goto("main", "exec")
          /\ UNCHANGED message_lock
       \/ /\ LockFree
          /\ message_lock' = "main"
          /\ Goto("main", "gq_copy")
    /\ UNCHANGED pureVars
    /\ UNCHANGED <<chanVars, message_queue, messages, loopVars, runVars,
                   startVars, endVars, drainVars, countVars, snd, peerClosed,
                   wire, sendLog, replyCount, refusedSends>>

\* Line 421: messages = self.message_queue.copy()
GetQueuedCopy ==
    /\ pc["main"] = "gq_copy"
    /\ messages' = message_queue
    /\ Goto("main", "gq_clear")
    /\ UNCHANGED pureVars
    /\ UNCHANGED <<chanVars, message_queue, message_lock, loopVars, runVars,
                   startVars, endVars, drainVars, countVars, snd, peerClosed,
                   wire, sendLog, replyCount, refusedSends>>

\* Positions in msgs of the messages of type data.
DataPositions(msgs) == {i \in 1..Len(msgs) : msgs[i].kind = "data"}

\* Lines 422-423, then 589-594: the queue is cleared, the lock released and
\* the copy returned to get_from_java, which returns the payload of the first
\* data message of the batch or, without one, sleeps and goes round again.
GetQueuedClear ==
    /\ pc["main"] = "gq_clear"
    /\ message_queue' = <<>>
    /\ message_lock' = "free"
    /\ drainedLog' = drainedLog \o [i \in 1..Len(messages) |-> messages[i].id]
    /\ IF DataPositions(messages) # {}
       THEN /\ delivered' = Append(delivered,
                 messages[CHOOSE i \in DataPositions(messages) :
                            \A j \in DataPositions(messages) : i <= j].id)
            /\ Goto("main", "exec")
       ELSE /\ Goto("main", "gfj_loop")
            /\ UNCHANGED delivered
    /\ messages' = <<>>
    /\ UNCHANGED pureVars
    /\ UNCHANGED <<chanVars, loopVars, runVars, startVars, endVars, countVars,
                   snd, peerClosed, wire, sendLog, replyCount, refusedSends>>

\* ------------------------------------------------------ _communication_loop
\* Line 357, while self.is_communicating, then receive_message's guard
\* (lines 316-317): the loop ends, or sleeps and goes round, or blocks in
\* recv.
LoopCheck ==
    /\ pc["loop"] = "top"
    /\ Goto("loop", IF ~is_communicating THEN "done"
                    ELSE IF communication_socket = "None" THEN "top"
                    ELSE "recv")
    /\ UNCHANGED pureVars
    /\ UNCHANGED <<chanVars, queueVars, loopVars, runVars, startVars, endVars,
                   drainVars, countVars, snd, peerClosed, wire, sendLog,
                   replyCount, refusedSends>>

\* HandleReceivedMessage without the heartbeat branch of lines 379-381.
HandleReceivedMessageNoHeartbeat(m) ==
    CASE m.kind = "ping" ->
           /\ CallSend("loop", "command_response", "pong", 0, "top")
           /\ lmsg' = m
      [] m.kind = "status" ->
           /\ CallSend("loop", "command_response", "status_response",
                       Len(message_queue), "top")
           /\ lmsg' = m
      [] m.kind = "data" ->
           /\ lmsg' = m
           /\ Goto("loop", "append")
           /\ UNCHANGED <<snd, sendLog, replyCount, refusedSends>>
      [] OTHER ->
           /\ lmsg' = m
           /\ Goto("loop", "top")
           /\ UNCHANGED <<snd, sendLog, replyCount, refusedSends>>

\* HandleReceivedMessage reporting every data message ever queued as the depth.
HandleReceivedMessageCountsAll(m) ==
    CASE m.kind = "heartbeat" ->
           /\ CallSend("loop", "heartbeat_response", "pong", 0, "top")
           /\ lmsg' = m
      [] m.kind = "ping" ->
           /\ CallSend("loop", "command_response", "pong", 0, "top")
           /\ lmsg' = m
      [] m.kind = "status" ->
           /\ CallSend("loop", "command_response", "status_response",
                       Len(appendedLog), "top")
           /\ lmsg' = m
      [] m.kind = "data" ->
           /\ lmsg' = m
           /\ Goto("loop", "append")
           /\ UNCHANGED <<snd, sendLog, replyCount, refusedSends>>
      [] OTHER ->
           /\ lmsg' = m
           /\ Goto("loop", "top")
           /\ UNCHANGED <<snd, sendLog, replyCount, refusedSends>>

\* HandleReceivedMessage calling command.get without the isinstance test of
\* line 397.
HandleReceivedMessageBadCommandFaults(m) ==
    CASE m.kind = "heartbeat" ->
           /\ CallSend("loop", "heartbeat_response", "pong", 0, "top")
           /\ lmsg' = m
      [] m.kind = "ping" ->
           /\ CallSend("loop", "command_response", "pong", 0, "top")
           /\ lmsg' = m
      [] m.kind = "status" ->
           /\ CallSend("loop", "command_response", "status_response",
                       Len(message_queue), "top")
           /\ lmsg' = m
      [] m.kind = "data" ->
           /\ lmsg' = m
           /\ Goto("loop", "append")
           /\ UNCHANGED <<snd, sendLog, replyCount, refusedSends>>
      [] m.kind = "bad_cmd" ->
           /\ lmsg' = m
           /\ Goto("loop", "done")
           /\ UNCHANGED <<snd, sendLog, replyCount, refusedSends>>
      [] OTHER ->
           /\ lmsg' = m
           /\ Goto("loop", "top")
           /\ UNCHANGED <<snd, sendLog, replyCount, refusedSends>>

\* HandleReceivedMessage with the else of line 392 queueing the message.
HandleReceivedMessageQueuesAll(m) ==
    CASE m.kind = "heartbeat" ->
           /\ CallSend("loop", "heartbeat_response", "pong", 0, "top")
           /\ lmsg' = m
      [] m.kind = "ping" ->
           /\ CallSend("loop", "command_response", "pong", 0, "top")
           /\ lmsg' = m
      [] m.kind = "status" ->
           /\ CallSend("loop", "command_response", "status_response",
                       Len(message_queue), "top")
           /\ lmsg' = m
      [] m.kind \in {"data", "other"} ->
           /\ lmsg' = m
           /\ Goto("loop", "append")
           /\ UNCHANGED <<snd, sendLog, replyCount, refusedSends>>
      [] OTHER ->
           /\ lmsg' = m
           /\ Goto("loop", "top")
           /\ UNCHANGED <<snd, sendLog, replyCount, refusedSends>>

\* _handle_received_message and _handle_command (lines 372-416), up to the
\* send_message call or the lock.  The message is a JSON object: anything else
\* was turned into None by receive_message.
HandleReceivedMessage(m) ==
    CASE m.kind = "heartbeat" ->
           /\ CallSend("loop", "heartbeat_response", "pong", 0, "top")
           /\ lmsg' = m
      [] m.kind = "ping" ->
           /\ CallSend("loop", "command_response", "pong", 0, "top")
           /\ lmsg' = m
      [] m.kind = "status" ->
           /\ CallSend("loop", "command_response", "status_response",
                       Len(message_queue), "top")
           /\ lmsg' = m
      [] m.kind = "data" ->
           /\ lmsg' = m
           /\ Goto("loop", "append")
           /\ UNCHANGED <<snd, sendLog, replyCount, refusedSends>>
      [] OTHER ->
           /\ lmsg' = m
           /\ Goto("loop", "top")
           /\ UNCHANGED <<snd, sendLog, replyCount, refusedSends>>

\* receive_message, lines 319-341, and the loop body, lines 359-364: a whole
\* frame arrives, parses and is handled; or the frame holds JSON that is not an
\* object, message.get of line 336 raises inside the try and None is returned;
\* or the read comes back short (the peer closed) or raises (the socket was
\* closed or set to None by close_communication), None is returned and the
\* loop sleeps.
ReceiveMessage ==
    /\ pc["loop"] = "recv"
    /\ \/ /\ ~peerClosed
          /\ nrecv < MaxInbound
          /\ nrecv' = nrecv + 1
          /\ \E k \in InboundKinds \ {"not_object"} :
               HandleReceivedMessage([kind |-> k, id |-> nrecv + 1])
       \/ /\ ~peerClosed
          /\ nrecv < MaxInbound
          /\ nrecv' = nrecv + 1
          /\ Goto("loop", "top")
          /\ lmsg' = NoMsg
          /\ UNCHANGED <<snd, sendLog, replyCount, refusedSends>>
       \/ /\ peerClosed \/ communication_socket = "None"
          /\ Goto("loop", "top")
          /\ lmsg' = NoMsg
          /\ UNCHANGED <<nrecv, snd, sendLog, replyCount, refusedSends>>
    /\ UNCHANGED pureVars
    /\ UNCHANGED <<chanVars, queueVars, appendedLog, runVars, startVars,
                   endVars, drainVars, countVars, peerClosed, wire>>

\* AppendData with insert(0, message) in place of append(message).
AppendDataAtHead ==
    /\ pc["loop"] = "append"
    /\ LockFree
    /\ message_queue' = <<lmsg>> \o message_queue
    /\ appendedLog' = Append(appendedLog, lmsg.id)
    /\ UNCHANGED lmsg
    /\ Goto("loop", "top")
    /\ UNCHANGED pureVars
    /\ UNCHANGED <<chanVars, message_lock, messages, nrecv, runVars, startVars,
                   endVars, drainVars, countVars, snd, peerClosed, wire,
                   sendLog, replyCount, refusedSends>>

\* Lines 389-390: with self.message_lock: self.message_queue.append(message)
AppendData ==
    /\ pc["loop"] = "append"
    /\ LockFree
    /\ message_queue' = Append(message_queue, lmsg)
    /\ appendedLog' = Append(appendedLog, lmsg.id)
    /\ UNCHANGED pureVars
    /\ UNCHANGED lmsg
    /\ Goto("loop", "top")
    /\ UNCHANGED <<chanVars, message_lock, messages, nrecv, runVars, startVars,
                   endVars, drainVars, countVars, snd, peerClosed, wire,
                   sendLog, replyCount, refusedSends>>

\* ------------------------------------------------------------------ the peer
\* The Java side closes its end of the connection.
PeerClose ==
    /\ communication_socket # "None"
    /\ ~peerClosed
    /\ peerClosed' = TRUE
    /\ UNCHANGED pureVars
    /\ UNCHANGED <<pc, chanVars, queueVars, loopVars, runVars, startVars,
                   endVars, drainVars, countVars, snd, wire, sendLog, replyCount, refusedSends>>

\* A caller holding the PythonBootstrap object calls close_communication
\* again after run has ended (as the tests do on a fresh object).
CloseAgain ==
    /\ pc["main"] \in {"returned", "raised"}
    /\ closeCalls < 1 + MaxCloses
    /\ Goto("main", "finally")
    /\ UNCHANGED pureVars
    /\ UNCHANGED <<chanVars, queueVars, loopVars, runVars, startVars, endVars,
                   drainVars, countVars, snd, peerClosed, wire, sendLog,
                   replyCount, refusedSends>>

\* --------------------------------------------------------------------------
Next ==
    \/ SetupResourceLimits
    \/ ValidateTargetScript
    \/ LoadScriptArguments
    \/ SetupWorkingDirectory
    \/ EstablishCommunication
    \/ SendConnection
    \/ ReportStartupStatus
    \/ LoadBegin
    \/ LoadCompile
    \/ WorkloadEmit
    \/ WorkloadAwait
    \/ GetFromJavaPoll
    \/ GetQueuedCopy
    \/ GetQueuedClear
    \/ WorkloadFinish
    \/ RunAfterScript
    \/ CloseCommunication
    \/ CloseFlip
    \/ CloseSocket
    \/ CloseJoin
    \/ \E t \in Threads : SendWrite(t)
    \/ LoopCheck
    \/ ReceiveMessage
    \/ AppendData
    \/ PeerClose

Spec == Init /\ [][Next]_vars

\* run followed by further close_communication calls.
NextClose == Next \/ CloseAgain

SpecClose == Init /\ [][NextClose]_vars

\* The scheduler runs every thread that can take a step: the main path goes
\* through close_communication, and the loop thread goes on whenever it is
\* not blocked in recv.  Nothing is assumed about when a blocked recv comes
\* back: that depends on the peer.
CloseSteps == CloseFlip \/ CloseSocket \/ CloseJoin
LoopSteps == LoopCheck \/ SendWrite("loop") \/ AppendData

SpecLive == Spec /\ WF_vars(CloseSteps) /\ WF_vars(LoopSteps)

\* get_from_java's clock: every round of its while sleeps 0.1 s, so the test
\* `time.time() - start_time < timeout` of line 587 fails after finitely
\* many rounds (strong fairness of the timeout exit), and the main thread
\* takes the steps of a drain when it can.
GetFromJavaTimeout == GetFromJavaPoll /\ pc'["main"] = "exec"
DrainSteps == GetFromJavaPoll \/ GetQueuedCopy \/ GetQueuedClear

SpecAwait == Spec /\ WF_vars(DrainSteps) /\ SF_vars(GetFromJavaTimeout)

\* ------------------------------------------- setup_resource_limits, in detail
\* resource.RLIM_INFINITY
RLIM_INFINITY == -1
MiB == 1024 * 1024
\* Line 123: cpu_time_limit = 3600
cpu_time_limit == 3600
\* Line 135: the fixed cap of the file-descriptor limit
FdCap == 1024

\* --memory-limit, in MB.
MemoryRequests == {1, 2, 3}
MemHardCeilings == {RLIM_INFINITY, 2 * MiB}
CpuHardCeilings == {RLIM_INFINITY, 1800, 3600, 7200}
FdHardCeilings == {RLIM_INFINITY, 256, 1024, 4096}
Calls == {"getrlimit", "setrlimit"} \X Resources

\* Line 107
MemoryBytes(mb) == mb * 1024 * 1024

\* Lines 113 and 126: the test that lets setrlimit be called.
MayRaiseSoftLimit(requested, hard) ==
    hard = RLIM_INFINITY \/ requested < hard

Min(a, b) == IF a < b THEN a ELSE b

\* Line 135
FdLimit(hard) == IF hard # RLIM_INFINITY THEN Min(FdCap, hard) ELSE FdCap

\* The process starts setup_resource_limits with some request, on a host with
\* some hard ceilings, where some calls of the resource module raise.
InitLimits ==
    /\ RunInit
    /\ memory_mb \in MemoryRequests
    /\ current_mem_hard \in MemHardCeilings
    /\ current_cpu_hard \in CpuHardCeilings
    /\ current_fd_hard \in FdHardCeilings
    /\ raising \in SUBSET Calls
    /\ soft_limit = Inherited
    /\ IdsIdle
    /\ FrameIdle

limitsFrame ==
    <<chanVars, queueVars, lmsg, snd, script_exit_code, caps, script_globals,
      startVars, workload, escaped, peerClosed, histVars, memory_mb,
      current_mem_hard, current_cpu_hard, current_fd_hard, raising, idVars,
      frameVars>>

\* LimitsExcept without the try/except of lines 105 and 153: the exception
\* reaches run's handler.
LimitsExceptReraises ==
    /\ Abort("limits")
    /\ UNCHANGED <<resource_limits, soft_limit>>

\* Lines 153-156: an exception of getrlimit is logged and the method returns;
\* self.resource_limits is not assigned.
LimitsExcept ==
    /\ Goto("main", "validate")
    /\ UNCHANGED <<resource_limits, soft_limit, exit_code, aborted>>

\* The try of lines 114-118, 127-131 and 137-141: setrlimit sets the soft
\* limit, or raises and only a warning is logged.
SetSoftLimit(r, value) ==
    soft_limit' = IF <<"setrlimit", r>> \in raising
                  THEN soft_limit
                  ELSE [x \in DOMAIN soft_limit \cup {r} |->
                          IF x = r THEN value ELSE soft_limit[x]]

\* Lines 107-120: the memory limit.
LimitMemory ==
    /\ pc["main"] = "limits"
    /\ IF <<"getrlimit", "AS">> \in raising
       THEN LimitsExcept
       ELSE /\ IF MayRaiseSoftLimit(MemoryBytes(memory_mb), current_mem_hard)
               THEN SetSoftLimit("AS", MemoryBytes(memory_mb))
               ELSE UNCHANGED soft_limit
            /\ Goto("main", "limits_cpu")
            /\ UNCHANGED <<resource_limits, exit_code, aborted>>
    /\ UNCHANGED limitsFrame

\* Lines 123-131: the CPU time limit.
LimitCpu ==
    /\ pc["main"] = "limits_cpu"
    /\ IF <<"getrlimit", "CPU">> \in raising
       THEN LimitsExcept
       ELSE /\ IF MayRaiseSoftLimit(cpu_time_limit, current_cpu_hard)
               THEN SetSoftLimit("CPU", cpu_time_limit)
               ELSE UNCHANGED soft_limit
            /\ Goto("main", "limits_fd")
            /\ UNCHANGED <<resource_limits, exit_code, aborted>>
    /\ UNCHANGED limitsFrame

\* Lines 134-141: the file descriptor limit.
LimitFd ==
    /\ pc["main"] = "limits_fd"
    /\ IF <<"getrlimit", "NOFILE">> \in raising
       THEN LimitsExcept
       ELSE /\ SetSoftLimit("NOFILE", FdLimit(current_fd_hard))
            /\ Goto("main", "limits_record")
            /\ UNCHANGED <<resource_limits, exit_code, aborted>>
    /\ UNCHANGED limitsFrame

\* Lines 143-151: self.resource_limits = {...}, and the method returns to run.
LimitRecord ==
    /\ pc["main"] = "limits_record"
    /\ resource_limits' = [memory_mb |-> memory_mb,
                           memory_bytes |-> MemoryBytes(memory_mb),
                           cpu_time_limit |-> cpu_time_limit,
                           fd_limit |-> FdLimit(current_fd_hard)]
    /\ Goto("main", "validate")
    /\ UNCHANGED <<soft_limit, exit_code, aborted>>
    /\ UNCHANGED limitsFrame

NextLimits == LimitMemory \/ LimitCpu \/ LimitFd \/ LimitRecord

\* The method runs in the main thread alone and each step is taken.
SpecLimits == InitLimits /\ [][NextLimits]_vars /\ WF_vars(NextLimits)

\* ------------------------------------------------ send_message's messageId
MaxClock == 3
MaxSends == 3
Pids == {4242, 4243}

\* Line 290: f"py-{os.getpid()}-{int(time.time() * 1000)}"
MessageId(p, ms) == <<"py", p, ms>>

\* The process runs with some pid and a connected channel; nothing has been
\* sent.
InitIds ==
    /\ Established
    /\ LimitsIdle
    /\ FrameIdle
    /\ pid \in Pids
    /\ now_ms = 0
    /\ sent_ids = <<>>

\* The clock reaches the next millisecond.
Tick ==
    /\ now_ms < MaxClock
    /\ now_ms' = now_ms + 1
    /\ UNCHANGED <<pid, sent_ids>>
    /\ UNCHANGED <<progVars, inputVars, histVars, limitVars, frameVars>>

\* Lines 283-294: thread t builds a message in send_message.
BuildMessage(t) ==
    /\ SendGuard
    /\ Len(sent_ids) < MaxSends
    /\ sent_ids' = Append(sent_ids, [thread |-> t, id |-> MessageId(pid, now_ms)])
    /\ UNCHANGED <<pid, now_ms>>
    /\ UNCHANGED <<progVars, inputVars, histVars, limitVars, frameVars>>

NextIds == Tick \/ \E t \in Threads : BuildMessage(t)

SpecIds == InitIds /\ [][NextIds]_vars

\* --------------------------------------- framing: send_message, receive_message
MaxPayload == 2
LongPayload == 24

\* The characters of a payload string: a plain one, one that JSON escapes
\* with a backslash, one outside ASCII.
Chars == {"a", "quote", "e_acute"}
RECURSIVE Strings(_)
Strings(n) ==
    IF n = 0 THEN {<<>>}
    ELSE Strings(n - 1) \cup
         {Append(str, c) : str \in {x \in Strings(n - 1) : Len(x) = n - 1},
                           c \in Chars}
\* Short strings, and one of characters outside the basic plane, whose body
\* takes more than one byte of the prefix.
Payloads == Strings(MaxPayload) \cup {[i \in 1..LongPayload |-> "emoji"]}
MessageTypes == {"data", "command"}
Messages == [messageType : MessageTypes, payload : Payloads]

\* json.dumps (line 297) and encode (line 298), on this message schema:
\* {, the type, a quoted string with escapes, }.  ensure_ascii writes a
\* character outside ASCII as a backslash, u and four hex digits, and one
\* outside the basic plane as two of these.
TypeCode(t) == IF t = "data" THEN 100 ELSE 99
EscapeChar(c) ==
    CASE c = "a" -> <<97>>
      [] c = "quote" -> <<92, 34>>
      [] c = "e_acute" -> <<92, 117, 48, 48, 101, 57>>
      [] c = "emoji" -> <<92, 117, 100, 56, 51, 100,
                          92, 117, 100, 101, 48, 48>>
RECURSIVE EscapeString(_)
EscapeString(str) ==
    IF str = <<>> THEN <<>>
    ELSE EscapeChar(Head(str)) \o EscapeString(Tail(str))
Dumps(m) ==
    <<123, TypeCode(m.messageType), 34>> \o EscapeString(m.payload)
        \o <<34, 125>>

\* struct.pack('<I', n): the prefix with the low byte first.
PackLittleEndian(n) ==
    <<n % 256, (n \div 256) % 256, (n \div 65536) % 256,
      (n \div 16777216) % 256>>

\* Line 301: struct.pack('>I', n)
Pack(n) ==
    <<(n \div 16777216) % 256, (n \div 65536) % 256, (n \div 256) % 256,
      n % 256>>

\* Line 325: struct.unpack('>I', length_data)[0]
Unpack(b) == ((b[1] * 256 + b[2]) * 256 + b[3]) * 256 + b[4]

\* json.loads (lines 333-334) of the string that starts at b[i]: the
\* characters up to the closing quote and the position after it.
RECURSIVE Unescape(_, _, _)
Unescape(b, i, acc) ==
    IF i > Len(b) THEN [ok |-> FALSE, chars |-> acc, next |-> i]
    ELSE IF b[i] = 34 THEN [ok |-> TRUE, chars |-> acc, next |-> i + 1]
    ELSE IF b[i] = 97 THEN Unescape(b, i + 1, Append(acc, "a"))
    ELSE IF b[i] = 92 /\ i + 1 <= Len(b) /\ b[i + 1] = 34
         THEN Unescape(b, i + 2, Append(acc, "quote"))
    ELSE IF /\ b[i] = 92 /\ i + 5 <= Len(b)
            /\ SubSeq(b, i + 1, i + 5) = <<117, 48, 48, 101, 57>>
         THEN Unescape(b, i + 6, Append(acc, "e_acute"))
    ELSE IF /\ b[i] = 92 /\ i + 11 <= Len(b)
            /\ SubSeq(b, i + 1, i + 11) =
                  <<117, 100, 56, 51, 100, 92, 117, 100, 101, 48, 48>>
         THEN Unescape(b, i + 12, Append(acc, "emoji"))
    ELSE [ok |-> FALSE, chars |-> acc, next |-> i]

\* Lines 333-341: the parsed message, or None when json.loads raises.
Loads(b) ==
    IF Len(b) >= 5 /\ b[1] = 123 /\ b[2] \in {100, 99} /\ b[3] = 34
    THEN LET u == Unescape(b, 4, <<>>)
         IN  IF u.ok /\ u.next = Len(b) /\ b[Len(b)] = 125
             THEN [kind |-> "message",
                   message |-> [messageType |->
                                    IF b[2] = 100 THEN "data" ELSE "command",
                                payload |-> u.chars]]
             ELSE ReturnedNone
    ELSE ReturnedNone

\* A connected process is about to send some message to a peer that reads it
\* back with receive_message.
InitFrame ==
    /\ Established
    /\ LimitsIdle
    /\ IdsIdle
    /\ out_message \in Messages
    /\ framed_message = <<>>
    /\ cut = 0
    /\ stream = <<>>
    /\ data = <<>>
    /\ message_length = 0
    /\ received = Pending
    /\ routed = <<>>
    /\ fpc = "build"

frameFrame == <<progVars, inputVars, histVars, limitVars, idVars>>

\* Where the connection is cut: nowhere, or in the prefix, or in the body.
Cuts(frame) == {c \in {0, 1, 3, 4, 5, Len(frame) - 1, Len(frame)} :
                  c <= Len(frame)}

\* Lines 296-305: the message is serialized, framed and written; the peer's
\* connection carries the frame, or the part of it before the connection is
\* cut.
SendFrame ==
    /\ fpc = "build"
    /\ SendGuard
    /\ LET message_bytes == Dumps(out_message)
       IN  framed_message' = Pack(Len(message_bytes)) \o message_bytes
    /\ \E c \in Cuts(framed_message') :
          /\ cut' = c
          /\ stream' = SubSeq(framed_message', 1, c)
    /\ fpc' = "prefix"
    /\ UNCHANGED <<out_message, data, message_length, received, routed>>
    /\ UNCHANGED frameFrame

\* socket.recv(n) on a connection with avail bytes to come returns some of
\* them, at most n.
ChunkSizes(n, avail) ==
    LET m == Min(n, avail) IN {k \in {1, 2, m} : 1 <= k /\ k <= m}

\* Lines 316-325 and one round of _receive_exact(4) (lines 346-350): a chunk
\* of the prefix arrives; or the connection is at its end and None is returned.
ReceivePrefix ==
    /\ fpc = "prefix"
    /\ is_communicating /\ communication_socket # "None"
    /\ IF stream = <<>>
       THEN /\ received' = ReturnedNone
            /\ fpc' = "dispatch"
            /\ UNCHANGED <<stream, data, message_length>>
       ELSE \E k \in ChunkSizes(4 - Len(data), Len(stream)) :
              /\ stream' = SubSeq(stream, k + 1, Len(stream))
              /\ IF Len(data) + k < 4
                 THEN /\ data' = data \o SubSeq(stream, 1, k)
                      /\ UNCHANGED <<message_length, fpc>>
                 ELSE /\ message_length' = Unpack(data \o SubSeq(stream, 1, k))
                      /\ data' = <<>>
                      /\ fpc' = "body"
              /\ UNCHANGED received
    /\ UNCHANGED <<out_message, framed_message, cut, routed>>
    /\ UNCHANGED frameFrame

\* Lines 328-341 and one round of _receive_exact(message_length): a chunk of
\* the body arrives and, once the body is whole, it is parsed; or the
\* connection is at its end, or the body is empty, and None is returned.
ReceiveBody ==
    /\ fpc = "body"
    /\ IF message_length = 0 \/ stream = <<>>
       THEN /\ received' = ReturnedNone
            /\ fpc' = "dispatch"
            /\ UNCHANGED <<stream, data>>
       ELSE \E k \in ChunkSizes(message_length - Len(data), Len(stream)) :
              /\ stream' = SubSeq(stream, k + 1, Len(stream))
              /\ data' = data \o SubSeq(stream, 1, k)
              /\ IF Len(data') < message_length
                 THEN UNCHANGED <<received, fpc>>
                 ELSE /\ received' = Loads(data')
                      /\ fpc' = "dispatch"
    /\ UNCHANGED <<out_message, framed_message, cut, message_length, routed>>
    /\ UNCHANGED frameFrame

\* Dispatch without the test of line 360: whatever receive_message returned
\* is handed to _handle_received_message.
DispatchAlways ==
    /\ fpc = "dispatch"
    /\ routed' = Append(routed, received.message)
    /\ fpc' = "done"
    /\ UNCHANGED <<out_message, framed_message, cut, stream, data,
                   message_length, received>>
    /\ UNCHANGED frameFrame

\* Lines 359-364: the loop hands a message to _handle_received_message, or
\* sleeps when receive_message returned None.
Dispatch ==
    /\ fpc = "dispatch"
    /\ routed' = IF received.kind = "message"
                 THEN Append(routed, received.message)
                 ELSE routed
    /\ fpc' = "done"
    /\ UNCHANGED <<out_message, framed_message, cut, stream, data,
                   message_length, received>>
    /\ UNCHANGED frameFrame

NextFrame == SendFrame \/ ReceivePrefix \/ ReceiveBody \/ Dispatch

SpecFrame == InitFrame /\ [][NextFrame]_vars

\* ================================================================== claims
\* The script_status values handed to send_message on the main path, in order.
StatusFrames == SelectSeq(sendLog, LAMBDA f : f.mtype = "script_status")
Statuses == [i \in 1..Len(StatusFrames) |-> StatusFrames[i].status]
TerminalStatuses == {"completed", "exited", "failed"}

IsPrefix(s, t) == Len(s) <= Len(t) /\ \A i \in 1..Len(s) : s[i] = t[i]
Count(s, x) == Cardinality({i \in 1..Len(s) : s[i] = x})

\* run has ended: it returned exit_code or a BaseException left it.
RunEnded == pc["main"] \in {"returned", "raised"}

\* C1: frames of the main path and frames of the loop's replies never
\* interleave on the connection: a thread that has written the head of a
\* frame finds that head still at the end of the stream when it writes the
\* tail, so the stream is a concatenation of whole frames.
C1_FramesNeverInterleave ==
    \A t \in Threads : pc[t] = "send_tail" => wire.open = t

\* C2: with the channel connected, the script_status values sent by
\* load_and_execute_script are loading, then executing, then exactly one of
\* completed, exited, failed: at every moment a prefix of such a sequence,
\* and the whole of it once load_and_execute_script has returned.
C2_StatusSequence ==
    /\ \E term \in TerminalStatuses :
         IsPrefix(Statuses, <<"loading", "executing", term>>)
    /\ (pc["main"] = "ret_load" /\ caps) => Len(Statuses) = 3

\* C3: on every way out of run (the script completed, exited or faulted, a
\* bootstrap step aborted, a BaseException went through),
\* close_communication has been called, the channel is not connected and
\* the socket has been closed and released.
C3_CleanupOnEveryExit ==
    RunEnded =>
        /\ closeCalls >= 1
        /\ ~is_communicating
        /\ communication_socket = "None"

\* run returned after an abort at step 6 with the channel connected.
C3_Witness ==
    /\ pc["main"] = "returned"
    /\ connectResult = "ok"
    /\ aborted = "report"
    /\ closeCalls = 1

\* C4: a workload that calls sys.exit(N) makes load_and_execute_script
\* return N, run return N and the process exit with N, and when the channel
\* is connected the status sent is exited with exit_code N.
C4_ExplicitExitPropagates ==
    (workload.kind = "exit" /\ ~workload.none) =>
        /\ script_exit_code = workload.code
        /\ pc["main"] = "returned" =>
             /\ exit_code = workload.code
             /\ ProcessExitCode(exit_code) = workload.code
        /\ caps =>
             /\ Len(StatusFrames) = 3
             /\ StatusFrames[3].status = "exited"
             /\ StatusFrames[3].code = workload.code

\* run returned 42 for a workload that called sys.exit(42), connected.
C4_Witness ==
    /\ pc["main"] = "returned"
    /\ workload = [kind |-> "exit", code |-> 42, none |-> FALSE]
    /\ exit_code = 42
    /\ caps

\* C5: a workload that raises an uncaught Exception gives exit code 1 from
\* load_and_execute_script and from run, nothing is raised past either, and
\* when the channel is connected exactly one failed status is handed to
\* send_message (none when it is not).
C5_FaultMapsToOne ==
    workload.kind = "fault" =>
        /\ script_exit_code = 1
        /\ ~escaped
        /\ pc["main"] # "raised"
        /\ pc["main"] = "returned" => exit_code = 1
        /\ Count(Statuses, "failed") = IF caps THEN 1 ELSE 0

\* run returned after a fault with the channel connected.
C5_Witness ==
    /\ pc["main"] = "returned"
    /\ workload.kind = "fault"
    /\ caps
    /\ Statuses = <<"loading", "executing", "failed">>

\* C6: a workload that runs to its end gives 0 from load_and_execute_script
\* and from run, and when the channel is connected the terminal status is
\* completed with exit_code 0.
C6_CompletionIsZero ==
    workload.kind = "complete" =>
        /\ script_exit_code = 0
        /\ pc["main"] = "returned" => exit_code = 0
        /\ caps =>
             /\ Len(StatusFrames) = 3
             /\ StatusFrames[3].status = "completed"
             /\ StatusFrames[3].code = 0

\* run returned 0 after a completed workload, connected.
C6_Witness ==
    /\ pc["main"] = "returned"
    /\ workload.kind = "complete"
    /\ caps
    /\ exit_code = 0

\* The exit code a workload outcome stands for, whatever the channel does.
OutcomeCode(w) ==
    CASE w.kind = "complete" -> 0
      [] w.kind = "exit" -> IF w.none THEN 0 ELSE w.code
      [] w.kind = "fault" -> 1
      [] w.kind = "loadfail" -> 1

\* C7: the exit code run returns is a function of the workload's outcome
\* alone: it is the same whether or not the channel is connected, whether or
\* not the peer has closed, and whichever sends succeeded or failed.
C7_OutcomeIndependentOfTelemetry ==
    (pc["main"] = "returned" /\ workload.kind \in
         {"complete", "exit", "fault", "loadfail"})
        => exit_code = OutcomeCode(workload)

\* run returned 42 although the peer closed while a main-path frame was half
\* written, so that send and every later one failed.
C7_Witness ==
    /\ pc["main"] = "returned"
    /\ workload = [kind |-> "exit", code |-> 42, none |-> FALSE]
    /\ exit_code = 42
    /\ peerClosed
    /\ wire.open = "main"

\* The ids of the messages in the Inbox.
QueuedIds == [i \in 1..Len(message_queue) |-> message_queue[i].id]

\* C8: every message appended to message_queue has been returned by exactly
\* one get_queued_messages call or is still in the queue, never both, never
\* twice, never neither.
C8_DrainAndClearAtomic ==
    \A i \in 1..Len(appendedLog) :
        Count(drainedLog, appendedLog[i]) + Count(QueuedIds, appendedLog[i]) = 1

\* One message has been drained and a later one sits in the queue while the
\* next get_queued_messages holds the lock.
C8_Witness ==
    /\ Len(drainedLog) >= 1
    /\ Len(message_queue) >= 1
    /\ message_lock = "main"

\* C9: when --script names nothing, something that is not a file, or a file
\* that cannot be read, run aborts at validation: no connection is ever
\* made, no BOOTSTRAP_STATUS line printed, no workload code run, and the
\* exit code is 1.
C9_InvalidScriptAborts ==
    script \in {"missing", "notfile", "unreadable"} =>
        /\ aborted = "validate"
        /\ exit_code = 1
        /\ connectResult = "unset"
        /\ ~is_communicating
        /\ communication_socket = "None"
        /\ communication_thread = "None"
        /\ sendLog = <<>>
        /\ bootstrapStatus = 0
        /\ ~executed
        /\ workload = NoWorkload
        /\ pc["main"] \in {"finally", "returned"}

\* run returned for a --script that is a directory.
C9_Witness ==
    /\ pc["main"] = "returned"
    /\ script = "notfile"
    /\ exit_code = 1

\* C10: when --args is not JSON or not a JSON object, or chdir to
\* --working-dir fails, run aborts before any workload code runs and
\* returns 1.
C10_BadArgsOrWorkdirAborts ==
    (args \in {"badjson", "notmapping"} \/ workdir = "fail") =>
        /\ aborted \in {"args", "workdir"}
        /\ exit_code = 1
        /\ ~executed
        /\ workload = NoWorkload
        /\ pc["main"] \in {"finally", "returned"}

\* run returned 1 for --args holding a JSON list.
C10_Witness ==
    /\ pc["main"] = "returned"
    /\ args = "notmapping"
    /\ exit_code = 1

\* C11: when establish_communication fails (connect refused, thread cannot
\* be started) the channel stays disconnected with no socket held, nothing
\* is raised into run, and run goes on: once it has returned without a later
\* abort the BOOTSTRAP_STATUS line has been printed, load_and_execute_script
\* has run the workload, and the exit code is the workload's outcome.
C11_ConnectFailureIsNotFatal ==
    connectResult \in {"connfail", "threadfail"} =>
        /\ ~is_communicating
        /\ communication_socket = "None"
        /\ pc["loop"] = "none"
        /\ sendLog = <<>>
        /\ aborted \in {"none", "report"}
        /\ (pc["main"] = "returned" /\ aborted = "none") =>
             /\ bootstrapStatus = 1
             /\ workload # NoWorkload
             /\ exit_code = OutcomeCode(workload)

\* run returned the workload's exit code 42 after a refused connection.
C11_Witness ==
    /\ pc["main"] = "returned"
    /\ connectResult = "connfail"
    /\ workload = [kind |-> "exit", code |-> 42, none |-> FALSE]
    /\ executed
    /\ exit_code = 42
    /\ bootstrapStatus = 1

\* The main path has not yet come back from report_startup_status.
BeforeReport ==
    \/ pc["main"] \in {"limits", "validate", "args", "workdir", "connect",
                       "est_send", "report"}
    \/ pc["main"] \in {"send_head", "send_tail"} /\ snd["main"].ret = "report"

\* C12: the BOOTSTRAP_STATUS line is printed exactly once in a run whose
\* steps 1 to 5 went through, from the moment report_startup_status has
\* returned and so before any workload code runs, and never in a run that a
\* step aborted.
C12_BootstrapStatusOnce ==
    /\ bootstrapStatus = IF aborted = "none" /\ ~BeforeReport THEN 1 ELSE 0
    /\ (executed \/ workload # NoWorkload) => bootstrapStatus = 1

\* The workload is running after the one BOOTSTRAP_STATUS line.
C12_Witness ==
    /\ pc["main"] = "exec"
    /\ executed
    /\ bootstrapStatus = 1

\* The channel is Connected: the flag is set and a socket is held.
Connected == is_communicating /\ communication_socket # "None"

\* A step in which a send_message call returned False at its guard.
RefusedSendStep == refusedSends' = refusedSends + 1

C13_Step ==
    /\ RefusedSendStep =>
         /\ ~Connected
         /\ UNCHANGED <<wire, sendLog, replyCount, snd>>
         /\ UNCHANGED <<is_communicating, communication_socket,
                        communication_thread>>
         /\ UNCHANGED <<message_queue, message_lock, appendedLog>>
         /\ \A t \in Threads : pc'[t] \notin {"send_head", "send_tail"}
    /\ ~Connected =>
         /\ sendLog' = sendLog /\ replyCount' = replyCount
         /\ \A t \in Threads : pc'[t] = "send_head" => pc[t] = "send_head"
    /\ (~Connected /\ pc["loop"] = "top") =>
         /\ pc'["loop"] \in {"top", "done"}
         /\ UNCHANGED <<nrecv, lmsg, message_queue, appendedLog>>

\* C13: a send_message call made while the channel is not Connected returns
\* at its guard: no frame is built, nothing is written, and the channel's
\* fields and the Inbox stay as they are; a receive_message call made while
\* not Connected returns None without reading and without changing anything.
C13_NotConnectedIsNoOp == [][C13_Step]_vars

\* The loop thread's reply to a message that arrived after the close was
\* refused by send_message's guard.
C13_Witness ==
    /\ refusedSends >= 1
    /\ ~is_communicating
    /\ connectResult = "ok"

\* A step of the main path out of close_communication's first line, taken
\* with the channel never connected or already closed.
C14_Step ==
    (pc["main"] = "finally" /\ pc'["main"] # "finally" /\ ~is_communicating) =>
        /\ pc'["main"] \in {"returned", "raised"}
        /\ UNCHANGED <<is_communicating, communication_socket,
                       communication_thread>>
        /\ UNCHANGED <<message_queue, message_lock, messages>>
        /\ UNCHANGED <<wire, sendLog, replyCount, refusedSends, snd>>
        /\ UNCHANGED <<exit_code, script_exit_code, escaped, aborted>>

\* C14: close_communication on a channel that was never connected or is
\* already closed returns at once: no send_message call, no frame, no change
\* of any field, nothing raised; however often it is called, at most one
\* disconnect message is ever handed to send_message.
C14_CloseIdempotent ==
    /\ [][C14_Step]_vars
    /\ [](Count([i \in 1..Len(sendLog) |-> sendLog[i].mtype], "disconnect") <= 1)

\* close_communication has returned a second time on a channel that was
\* connected and closed by the first call, with its one disconnect message.
C14_Witness ==
    /\ pc["main"] = "returned"
    /\ closeCalls >= 2
    /\ connectResult = "ok"
    /\ Count([i \in 1..Len(sendLog) |-> sendLog[i].mtype], "disconnect") = 1

C15_Step ==
    /\ (~is_communicating /\ is_communicating') =>
         /\ pc["main"] = "connect"
         /\ connectResult = "unset" /\ connectResult' = "ok"
         /\ communication_socket' # "None"
    /\ (is_communicating /\ ~is_communicating') => pc["main"] = "close_flip"
    /\ connectResult # "unset" => connectResult' = connectResult
    /\ (communication_socket = "None" /\ communication_socket' # "None") =>
         (~is_communicating /\ is_communicating')

\* C15: is_communicating goes from False to True only in a successful
\* establish_communication, which runs once, and from True to False only in
\* close_communication; a channel that has left Connected is never
\* Connected again, and no socket is opened again.
C15_NoReconnect == [][C15_Step]_vars

\* The channel was connected and has been closed; the run is over.
C15_Witness ==
    /\ connectResult = "ok"
    /\ ~is_communicating
    /\ communication_socket = "None"
    /\ pc["main"] = "returned"
    /\ pc["loop"] = "done"

\* A step in which the loop's read comes back from a connection the peer has
\* closed, with the channel still marked connected.
LoopSeesDisconnect ==
    /\ pc["loop"] = "recv"
    /\ pc'["loop"] # "recv"
    /\ peerClosed
    /\ is_communicating

\* C16: when the loop's read finds the connection closed by the peer (a
\* short read), the loop exits and the channel leaves Connected.
C16_DisconnectEndsLoop ==
    [][LoopSeesDisconnect => (pc'["loop"] = "done" /\ ~is_communicating')]_vars

\* A step in which thread t's sendall fails on a connection the peer has
\* closed, with the channel still marked connected.
WriteFails(t) ==
    /\ pc[t] \in {"send_head", "send_tail"}
    /\ pc'[t] # pc[t]
    /\ peerClosed
    /\ is_communicating /\ communication_socket # "None"

\* C17: when a write of send_message fails with an I/O error while
\* Connected, the channel leaves Connected, so that every later send_message
\* call returns False at its guard without writing.
C17_WriteFailureClosesChannel ==
    [][(\E t \in Threads : WriteFails(t)) => ~is_communicating']_vars

\* close_communication has cleared is_communicating on a channel that was
\* connected.
Closed == connectResult = "ok" /\ ~is_communicating

C18_Step ==
    (Closed /\ pc["loop"] # "recv") => pc'["loop"] # "recv"

Received(k) ==
    /\ pc["loop"] = "recv"
    /\ nrecv' = nrecv + 1
    /\ lmsg' = [kind |-> k, id |-> nrecv + 1]

\* The loop thread's send_message call builds exactly one frame, this one.
Replies(mtype, status, code, limits) ==
    /\ replyCount' = replyCount + 1
    /\ pc'["loop"] = "send_head"
    /\ snd'["loop"].frame = [mtype |-> mtype, status |-> status,
                             code |-> code, limits |-> limits]
    /\ snd'["loop"].ret = "top"

C19_Step ==
    /\ (Connected /\ Received("heartbeat")) =>
         Replies("heartbeat_response", "pong", 0, "none")
    /\ (Connected /\ Received("ping")) =>
         Replies("command_response", "pong", 0, "none")
    /\ (Received("heartbeat") \/ Received("ping")) =>
         /\ UNCHANGED <<message_queue, message_lock, appendedLog>>
         /\ pc'["main"] = pc["main"]
    /\ replyCount' # replyCount =>
         /\ replyCount' = replyCount + 1
         /\ Received("heartbeat") \/ Received("ping") \/ Received("status")

\* C19: while the channel is Connected each heartbeat received makes the
\* loop thread hand exactly one heartbeat_response to send_message, and each
\* ping command exactly one command_response pong; the reply is built in the
\* step that receives the message, whatever the main path is doing, replies
\* are built for nothing else, and the Inbox is not touched.
C19_HeartbeatAndPingAnswered == [][C19_Step]_vars

\* The loop thread has written its whole heartbeat_response while the
\* workload is still running.
C19_Witness ==
    /\ lmsg.kind = "heartbeat"
    /\ replyCount = 1
    /\ pc["loop"] = "top"
    /\ wire.open = "none"
    /\ pc["main"] = "exec"
    /\ workload = NoWorkload

\* C20: each status command received while Connected makes the loop thread
\* hand exactly one command_response to send_message that carries the
\* recorded resource limits and, as the Inbox depth, the number of data
\* messages queued and not yet returned by a drain.
C20_StatusReportsDepth ==
    [][(Connected /\ Received("status")) =>
          /\ Replies("command_response", "status_response",
                     Len(appendedLog) - Len(drainedLog), resource_limits)
          /\ UNCHANGED <<message_queue, message_lock, appendedLog>>]_vars

\* A status reply reporting one queued message is being written after an
\* earlier message was queued.
C20_Witness ==
    /\ lmsg.kind = "status"
    /\ pc["loop"] = "send_tail"
    /\ snd["loop"].frame.status = "status_response"
    /\ snd["loop"].frame.code = 1
    /\ snd["loop"].frame.limits = "set"

\* Inbound kinds that _handle_received_message and _handle_command only log:
\* a command of unknown type, a command whose payload is not a mapping, a
\* message of a type other than heartbeat, command and data.
DroppedKinds == {"unknown_cmd", "bad_cmd", "other"}

\* C21: a command that is neither ping nor status, a command whose payload
\* is not a mapping, and a message of an unknown type cause no send_message
\* call, no change of the Inbox or of the channel, and no fault: the loop
\* thread goes back to the test of its while.
C21_UnknownIsDropped ==
    [][(\E k \in DroppedKinds : Received(k)) =>
          /\ pc'["loop"] = "top"
          /\ UNCHANGED <<replyCount, refusedSends, snd, wire, sendLog>>
          /\ UNCHANGED <<message_queue, message_lock, appendedLog>>
          /\ UNCHANGED <<is_communicating, communication_socket,
                         communication_thread>>]_vars

\* After a command with a payload that is not a mapping the loop thread is
\* reading the next message.
C21_Witness ==
    /\ lmsg.kind = "bad_cmd"
    /\ pc["loop"] = "recv"
    /\ is_communicating
    /\ replyCount = 0

C22_Step ==
    /\ Received("data") =>
         /\ pc'["loop"] = "append"
         /\ UNCHANGED <<replyCount, refusedSends, snd, wire, sendLog>>
    /\ Len(message_queue') > Len(message_queue) =>
         /\ lmsg.kind = "data"
         /\ message_queue' = Append(message_queue, lmsg)

\* C22: a data message causes no reply and is appended at the tail of
\* message_queue; nothing else is ever appended, so the queue (and every
\* batch a drain returns) holds data messages only.
C22_InboxHoldsOnlyData ==
    /\ [][C22_Step]_vars
    /\ [](/\ \A i \in 1..Len(message_queue) : message_queue[i].kind = "data"
          /\ \A i \in 1..Len(messages) : messages[i].kind = "data"
          /\ QueuedIds = SubSeq(appendedLog, Len(drainedLog) + 1,
                                Len(appendedLog)))

\* Two data messages are in the Inbox in the order they arrived.
C22_Witness ==
    /\ Len(message_queue) = 2
    /\ message_queue[1].id < message_queue[2].id
    /\ replyCount = 0

\* The main path is inside a get_from_java call.
InGetFromJava == pc["main"] \in {"gfj_loop", "gq_copy", "gq_clear"}

C26_Step ==
    (InGetFromJava /\ pc'["main"] = "exec") =>
        \/ /\ pc["main"] = "gq_clear"
           /\ Len(delivered') = Len(delivered) + 1
           /\ \E i \in 1..Len(messages) :
                 /\ messages[i].kind = "data"
                 /\ delivered'[Len(delivered')] = messages[i].id
        \/ /\ pc["main"] = "gfj_loop"
           /\ UNCHANGED <<delivered, message_queue, drainedLog>>

\* C26: every get_from_java call returns, whatever the loop thread does:
\* with the payload of a data message a drain took from the Inbox, or with
\* None when the timeout is over; it returns in no other way.
C26_AwaitAlwaysReturns ==
    /\ [][C26_Step]_vars
    /\ InGetFromJava ~> (pc["main"] = "exec")

\* get_from_java has returned the payload of a data message to the running
\* workload while the loop thread is blocked in recv.
C26_Witness ==
    /\ pc["main"] = "exec"
    /\ workload = NoWorkload
    /\ Len(delivered) = 1
    /\ drainedLog = delivered
    /\ pc["loop"] = "recv"
    /\ is_communicating

\* C30: the globals built by _prepare_script_environment always hold the
\* argument map (SCRIPT_ARGS) and the logger factory (get_logger), and hold
\* send_to_java and get_from_java exactly when is_communicating is True at
\* the moment they are built; once built they do not change.
C30_ContextCapabilities ==
    [][/\ (pc["main"] = "prepare" /\ pc'["main"] # "prepare") =>
            /\ {"SCRIPT_ARGS", "get_logger"} \subseteq script_globals'
            /\ ("send_to_java" \in script_globals') = is_communicating
            /\ ("get_from_java" \in script_globals') = is_communicating
       /\ pc["main"] # "prepare" => script_globals' = script_globals]_vars

\* A workload runs with the helpers; another state has them absent.
C30_Witness ==
    /\ pc["main"] = "exec"
    /\ connectResult = "ok"
    /\ script_globals = PrepareScriptEnvironment(TRUE)
    /\ "send_to_java" \in script_globals


\* ------------------------------------------------------------------- C27
\* C27: setup_resource_limits never fails the bootstrap.  run's handler is
\* never entered from it; a memory request above the hard ceiling of
\* RLIMIT_AS leaves the soft limit alone; and whatever getrlimit and setrlimit
\* calls raise, the method returns and run is at validate_target_script.
C27_LimitsNeverFailBootstrap ==
    /\ [](aborted = "none" /\ exit_code = 0)
    /\ []((/\ current_mem_hard # RLIM_INFINITY
           /\ MemoryBytes(memory_mb) > current_mem_hard)
          => "AS" \notin DOMAIN soft_limit)
    /\ <>(pc["main"] = "validate")

C27_Witness ==
    /\ pc["main"] = "validate"
    /\ current_mem_hard # RLIM_INFINITY
    /\ MemoryBytes(memory_mb) > current_mem_hard
    /\ <<"getrlimit", "CPU">> \in raising
    /\ <<"setrlimit", "AS">> \in raising
    /\ soft_limit = Inherited
    /\ aborted = "none"

\* ------------------------------------------------------------------- C28
\* The requested value does not exceed the hard ceiling.
NotAbove(requested, hard) == hard = RLIM_INFINITY \/ requested <= hard

\* C28: when no call of the resource module raises, each soft limit has been
\* set exactly when the requested value does not exceed the hard ceiling,
\* the case requested = hard included.
C28_SetUpToTheCeiling ==
    (pc["main"] = "validate" /\ raising = {}) =>
        /\ ("AS" \in DOMAIN soft_limit) =
              NotAbove(MemoryBytes(memory_mb), current_mem_hard)
        /\ ("CPU" \in DOMAIN soft_limit) =
              NotAbove(cpu_time_limit, current_cpu_hard)
        /\ "NOFILE" \in DOMAIN soft_limit

\* ------------------------------------------------------------------- C29
\* setup_resource_limits has returned after line 143.
Recorded ==
    /\ pc["main"] = "validate"
    /\ \A r \in Resources : <<"getrlimit", r>> \notin raising

\* C29: the recorded limits state no memory, CPU-time or file-descriptor
\* value above the hard ceiling of its resource, and the file-descriptor
\* value is min(1024, hard ceiling).
C29_RecordedWithinCeilings ==
    Recorded =>
        /\ NotAbove(resource_limits.memory_bytes, current_mem_hard)
        /\ NotAbove(resource_limits.cpu_time_limit, current_cpu_hard)
        /\ NotAbove(resource_limits.fd_limit, current_fd_hard)
        /\ resource_limits.fd_limit =
              IF current_fd_hard = RLIM_INFINITY THEN 1024
              ELSE Min(1024, current_fd_hard)


\* ------------------------------------------------------------------- C23
\* C23: no two messages built by the process, by either thread, carry the
\* same messageId.
C23_IdsUnique ==
    \A i, j \in 1..Len(sent_ids) :
        i # j => sent_ids[i].id # sent_ids[j].id


\* ------------------------------------------------------------------- C24
\* C24: the frame send_message builds is a 4-byte big-endian prefix equal to
\* the byte length of the serialized body, followed by that body; and when
\* the whole frame arrives, in whatever chunks, receive_message returns a
\* message equal to the one serialized.
C24_FramingRoundTrips ==
    fpc \notin {"idle", "build"} =>
        LET body == SubSeq(framed_message, 5, Len(framed_message))
        IN  /\ Len(framed_message) >= 4
            /\ \A i \in 1..4 : framed_message[i] \in 0..255
            /\ framed_message[1] * 16777216 + framed_message[2] * 65536
                 + framed_message[3] * 256 + framed_message[4] = Len(body)
            /\ body = Dumps(out_message)
            /\ (fpc \in {"dispatch", "done"} /\ cut = Len(framed_message))
                 => received = [kind |-> "message", message |-> out_message]

C24_Witness ==
    /\ fpc = "done"
    /\ cut = Len(framed_message)
    /\ Len(framed_message) > 260
    /\ received.message = out_message
    /\ routed = <<out_message>>

\* ------------------------------------------------------------------- C25
\* C25: receive_message returns a message only when the whole prefix and
\* exactly the announced number of body bytes have been read; when the
\* connection ends inside the prefix or the body it returns None, as it does
\* when the connection ends before the first byte, and nothing is handed to
\* _handle_received_message.
C25_NoPartialMessage ==
    /\ received.kind = "message" =>
          /\ cut = Len(framed_message)
          /\ message_length = Len(framed_message) - 4
          /\ Len(data) = message_length
          /\ stream = <<>>
    /\ (fpc \in {"dispatch", "done"} /\ cut < Len(framed_message)) =>
          received = ReturnedNone
    /\ (fpc = "done" /\ received = ReturnedNone) => routed = <<>>
    /\ (fpc = "done" /\ received.kind = "message") =>
          routed = <<received.message>>

C25_Witness ==
    /\ fpc = "done"
    /\ cut > 4 /\ cut < Len(framed_message)
    /\ Len(data) > 0
    /\ received = ReturnedNone
    /\ routed = <<>>


\* ------------------------------------------------------------------- C31
\* The loop thread is inside _handle_received_message or a send_message or
\* append it called.
InHandler == pc["loop"] \in {"send_head", "send_tail", "append"}

C31_Step ==
    /\ (pc["loop"] # "done" /\ pc'["loop"] = "done") =>
          (pc["loop"] = "top" /\ ~is_communicating)
    /\ (pc["loop"] = "recv" /\ nrecv' = nrecv + 1) =>
          (pc'["loop"] = "top" \/ InHandler')
    /\ (InHandler /\ pc'["loop"] # pc["loop"]) =>
          (pc'["loop"] = "top" \/ InHandler')

\* C31: whatever message arrives and whether the reply's write succeeds or
\* fails, _handle_received_message comes back to the loop's while; the loop
\* ends only at the test of its while with is_communicating False.
C31_DispatchNeverRaises == [][C31_Step]_vars

\* The write of a reply has failed (nothing was ever written on the
\* connection) and the loop is back at its while, the channel still connected.
C31_Witness ==
    /\ pc["loop"] = "top"
    /\ lmsg.kind = "heartbeat"
    /\ replyCount = 1
    /\ snd["loop"] = NoSend
    /\ wire = EmptyWire
    /\ peerClosed
    /\ is_communicating


\* ------------------------------------------------------------------- C32
\* C32: the first frame with a byte on the connection is the connection
\* message: no reply of the loop thread is written before it.
C32_ConnectionIsFirstFrame == wire.first \in {"none", "connection"}


\* ------------------------------------------------------------------- C33
\* close_communication's send_message("disconnect", ...) has returned.
DisconnectSent ==
    /\ \E i \in 1..Len(sendLog) : sendLog[i].mtype = "disconnect"
    /\ pc["main"] \in {"close_flip", "close_sock", "close_join", "returned",
                       "raised"}

\* C33: once close_communication has sent the disconnect message, nothing
\* more is written on the connection.
C33_DisconnectIsLastFrame == [][DisconnectSent => wire' = wire]_vars


\* ------------------------------------------------------------------- C34
\* C34: outside a get_from_java call, every data message appended to the
\* queue has been returned by exactly one get_from_java call or is still in
\* the queue.
C34_AwaitLosesNothing ==
    ~InGetFromJava =>
        \A i \in 1..Len(appendedLog) :
            Count(delivered, appendedLog[i]) + Count(QueuedIds, appendedLog[i])
              = 1


\* ------------------------------------------------------------------- C35
\* The ids of the batch a get_queued_messages call is returning.
BatchIds == [i \in 1..Len(messages) |-> messages[i].id]

C35_Step ==
    /\ drainedLog' # drainedLog =>
          /\ drainedLog' = drainedLog \o BatchIds
          /\ BatchIds = SubSeq(appendedLog, Len(drainedLog) + 1,
                               Len(drainedLog) + Len(messages))
    /\ Len(delivered') = Len(delivered) + 1 =>
          delivered'[Len(delivered')] = appendedLog[Len(drainedLog) + 1]

\* C35: get_queued_messages returns the data messages in the order the loop
\* thread appended them, each batch following the one before; and a
\* get_from_java call that finds data returns the oldest message of its batch.
C35_InboxIsFifo == [][C35_Step]_vars

\* A batch of two messages has been drained and the older one returned.
C35_Witness ==
    /\ pc["main"] = "exec"
    /\ Len(drainedLog) = 2
    /\ drainedLog = appendedLog
    /\ delivered = <<appendedLog[1]>>


\* ------------------------------------------------------------------- C36
\* C36: when the script cannot be read or compiled, load_and_execute_script
\* returns 1, no workload code runs and no helper is called, and the
\* script_status values handed to send_message are loading then failed when
\* the channel is connected (none when it is not).
C36_LoadFailureSkipsExecution ==
    workload.kind = "loadfail" =>
        /\ script_exit_code = 1
        /\ ~executed /\ ops = 0
        /\ pc["main"] \notin {"exec", "gfj_loop", "gq_copy", "gq_clear"}
        /\ pc["main"] = "returned" => exit_code = 1
        /\ Statuses = IF connectResult = "ok" THEN <<"loading", "failed">>
                      ELSE <<>>

\* run returned after a load failure with the channel connected.
C36_Witness ==
    /\ pc["main"] = "returned"
    /\ workload.kind = "loadfail"
    /\ connectResult = "ok"
    /\ Statuses = <<"loading", "failed">>
    /\ exit_code = 1


\* ------------------------------------------------------------------- C37
\* C37: whenever is_communicating is True a socket is held; the loop thread
\* runs only after establish_communication succeeded, and a Thread object
\* exists only after the socket connected.
C37_ConnectedHoldsSocket ==
    /\ is_communicating => communication_socket # "None"
    /\ pc["loop"] # "none" =>
          (connectResult = "ok" /\ communication_thread = "started")
    /\ communication_thread # "None" =>
          connectResult \in {"ok", "threadfail"}

\* close_communication is about to clear is_communicating while the loop
\* thread waits in recv on the socket.
C37_Witness ==
    /\ is_communicating
    /\ communication_socket = "sock"
    /\ pc["main"] = "close_flip"
    /\ pc["loop"] = "recv"

====
